---- MODULE Spec2Model ----
(***************************************************************************)
(* State-machine model of the VRL expression nodes IfStatement and         *)
(* Variable (lib/vrl/compiler/src/expression/{if_statement,variable}.rs):  *)
(* scalar resolve, batch resolve_batch over a selection vector, and        *)
(* Variable::new against the compile-time local environment.               *)
(*                                                                         *)
(* Rows are numbered from 0 as in the source.  A Vec<usize> is a sequence; *)
(* the element at Rust index k is vec[k + 1].                              *)
(***************************************************************************)
EXTENDS Integers, Sequences, FiniteSets, TLC

\* ---------------------------------------------------------------- bounds
MaxRows == 3        \* rows in a batch
MaxFullRows == 2    \* batches up to this size draw every outcome combination

\* ---------------------------------------------------------------- state
VARIABLES
    node,                  \* which expression node the run exercises
    pc,                    \* position inside the running method
    resolved_values,       \* BatchContext.resolved_values : row -> Resolved
    states,                \* BatchContext.states : row -> live state of the row
    selection_vector,      \* the selection handed to resolve_batch
    alternative,           \* IfStatement.alternative : <<>> (None) or <<block>>
    selection_vector_if,   \* IfStatement.selection_vector_if
    selection_vector_else, \* IfStatement.selection_vector_else
    len,                   \* local `len` of the running scan
    i,                     \* local `i` of the running scan
    iters,                 \* iterations done by the running scan
    calls,                 \* children invoked so far, with their selections
    entry_values,          \* resolved_values as they were on entry
    scalar,                \* <<>> or <<outcome of the last scalar resolve>>
    local,                 \* LocalEnv given to Variable::new
    args,                  \* span and ident given to Variable::new
    variable,              \* <<>> or <<the Variable node built>>
    error,                 \* <<>> or <<the Error returned by Variable::new>>
    block_types,           \* the TypeDef of each child of the conditional
    type_def,              \* <<>> or <<the TypeDef returned by IfStatement::type_def>>
    labels                 \* <<>> or <<the labels returned by Error::labels>>

ifVars == <<alternative, selection_vector_if, selection_vector_else, len, i, iters>>
ctxVars == <<resolved_values, states, selection_vector, entry_values>>
varVars == <<local, args, variable, error>>
compileVars == <<block_types, type_def, labels>>
vars == <<node, pc, ctxVars, ifVars, varVars, compileVars, calls, scalar>>

\* ---------------------------------------------------------------- values
Ok(v) == [ok |-> TRUE, v |-> v]

Err(e) == [ok |-> FALSE, v |-> e]

Null == "null"

Boolean(b) == IF b THEN "true" ELSE "false"

is_err(r) == ~r.ok

is_boolean(r) == r.ok /\ r.v \in {"true", "false"}

Rows == DOMAIN resolved_values

\* ---------------------------------------------------------------- Vec
resize(vec, new_len, fill) ==
    IF Len(vec) >= new_len
    THEN SubSeq(vec, 1, new_len)
    ELSE vec \o [k \in 1..(new_len - Len(vec)) |-> fill]

copy_from_slice(vec, src) == [k \in 1..Len(vec) |-> src[k]]

\* swap that moves nothing
swap_forgotten(vec, a, b) == vec

swap(vec, a, b) ==
    [k \in 1..Len(vec) |-> IF k = a + 1 THEN vec[b + 1]
                           ELSE IF k = b + 1 THEN vec[a + 1]
                           ELSE vec[k]]

truncate(vec, new_len) ==
    IF new_len < Len(vec) THEN SubSeq(vec, 1, new_len) ELSE vec

Elems(vec) == {vec[k] : k \in 1..Len(vec)}

\* ------------------------------------------------- children (Predicate, Block)
\* A child expression resolves against the live state of a row; the state
\* of a row records what each child of the conditional resolves to there.
ChildResolve(child, state) == state[child]

\* A child's batch resolution writes, for every row of the selection it is
\* given, that row's result (value or fault) into the row's slot.
ChildResolveBatch(child, values, sel) ==
    [r \in DOMAIN values |->
        IF r \in Elems(sel) THEN ChildResolve(child, states[r]) ELSE values[r]]

\* ------------------------------------------------- IfStatement::resolve_batch
\* the predicate given only the rows that entered without a fault
PredicateResolveBatchFiltered ==
    /\ node = "IfStatement" /\ pc = "predicate"
    /\ LET live == SelectSeq(selection_vector, LAMBDA r : ~is_err(resolved_values[r])) IN
         /\ resolved_values' = ChildResolveBatch("predicate", resolved_values, live)
         /\ calls' = Append(calls, [child |-> "predicate", sel |-> live])
    /\ pc' = "copy"
    /\ UNCHANGED <<node, compileVars, states, selection_vector, entry_values, ifVars, varVars, scalar>>

\* the predicate resolved over every row of the batch
PredicateResolveBatchAllRows ==
    /\ node = "IfStatement" /\ pc = "predicate"
    /\ LET all == [k \in 1..Cardinality(Rows) |-> k - 1] IN
         /\ resolved_values' = ChildResolveBatch("predicate", resolved_values, all)
         /\ calls' = Append(calls, [child |-> "predicate", sel |-> all])
    /\ pc' = "copy"
    /\ UNCHANGED <<node, compileVars, states, selection_vector, entry_values, ifVars, varVars, scalar>>

\* line 52: self.predicate.resolve_batch(ctx, selection_vector)
PredicateResolveBatch ==
    /\ node = "IfStatement" /\ pc = "predicate"
    /\ resolved_values' = ChildResolveBatch("predicate", resolved_values, selection_vector)
    /\ calls' = Append(calls, [child |-> "predicate", sel |-> selection_vector])
    /\ pc' = "copy"
    /\ UNCHANGED <<node, compileVars, states, selection_vector, entry_values, ifVars, varVars, scalar>>

\* lines 54-58: resize, copy_from_slice, let mut len, let mut i
CopySelection ==
    /\ node = "IfStatement" /\ pc = "copy"
    /\ selection_vector_if' =
           copy_from_slice(resize(selection_vector_if, Len(selection_vector), 0),
                           selection_vector)
    /\ len' = Len(selection_vector_if')
    /\ i' = 0
    /\ iters' = 0
    /\ pc' = "fault_scan"
    /\ UNCHANGED <<node, compileVars, ctxVars, alternative, selection_vector_else, varVars,
                   calls, scalar>>

\* i advanced after a swap as well, the row swapped in never looked at
FaultScanStepSkipping ==
    /\ node = "IfStatement" /\ pc = "fault_scan"
    /\ ~(i >= len)
    /\ LET index == selection_vector_if[i + 1] IN
         IF is_err(resolved_values[index])
         THEN /\ len' = len - 1
              /\ selection_vector_if' = swap(selection_vector_if, i, len - 1)
              /\ i' = i + 1
         ELSE /\ i' = i + 1
              /\ UNCHANGED <<len, selection_vector_if>>
    /\ iters' = iters + 1
    /\ UNCHANGED <<node, compileVars, pc, ctxVars, alternative, selection_vector_else, varVars,
                   calls, scalar>>

\* lines 59-71, one iteration of the first loop
FaultScanStep ==
    /\ node = "IfStatement" /\ pc = "fault_scan"
    /\ ~(i >= len)
    /\ LET index == selection_vector_if[i + 1] IN
         IF is_err(resolved_values[index])
         THEN /\ len' = len - 1
              /\ selection_vector_if' = swap(selection_vector_if, i, len - 1)
              /\ i' = i
         ELSE /\ i' = i + 1
              /\ UNCHANGED <<len, selection_vector_if>>
    /\ iters' = iters + 1
    /\ UNCHANGED <<node, compileVars, pc, ctxVars, alternative, selection_vector_else, varVars,
                   calls, scalar>>

\* selection_vector_else kept as the earlier call left it
FaultScanExitKeepingElse ==
    /\ node = "IfStatement" /\ pc = "fault_scan"
    /\ i >= len
    /\ selection_vector_if' = truncate(selection_vector_if, len)
    /\ len' = Len(selection_vector_if')
    /\ i' = 0
    /\ iters' = 0
    /\ pc' = "bool_scan"
    /\ UNCHANGED <<node, compileVars, ctxVars, alternative, selection_vector_else, varVars, calls, scalar>>

\* lines 60-61 (break) and 72-77: truncate both buffers, restart len and i
FaultScanExit ==
    /\ node = "IfStatement" /\ pc = "fault_scan"
    /\ i >= len
    /\ selection_vector_if' = truncate(selection_vector_if, len)
    /\ selection_vector_else' = truncate(selection_vector_else, 0)
    /\ len' = Len(selection_vector_if')
    /\ i' = 0
    /\ iters' = 0
    /\ pc' = "bool_scan"
    /\ UNCHANGED <<node, compileVars, ctxVars, alternative, varVars, calls, scalar>>

\* the boolean read with its sense inverted
PredicateValueInverted(r) == r.v # "true"

\* lines 84-87: Some(Ok(Value::Boolean(predicate))) => *predicate
PredicateValue(r) == r.v = "true"

\* lines 78-95, one iteration of the second loop
BoolScanStep ==
    /\ node = "IfStatement" /\ pc = "bool_scan"
    /\ ~(i >= len)
    /\ LET index == selection_vector_if[i + 1] IN
         IF index \in Rows /\ is_boolean(resolved_values[index])
         THEN IF PredicateValue(resolved_values[index])
              THEN /\ i' = i + 1
                   /\ UNCHANGED <<pc, len, selection_vector_if, selection_vector_else>>
              ELSE /\ len' = len - 1
                   /\ selection_vector_if' = swap(selection_vector_if, i, len - 1)
                   /\ selection_vector_else' = Append(selection_vector_else, index)
                   /\ UNCHANGED <<pc, i>>
         ELSE /\ pc' = "panicked"      \* unreachable!(..)
              /\ UNCHANGED <<len, i, selection_vector_if, selection_vector_else>>
    /\ iters' = iters + 1
    /\ UNCHANGED <<node, compileVars, ctxVars, alternative, varVars, calls, scalar>>

\* lines 79-80 (break) and 96
BoolScanExit ==
    /\ node = "IfStatement" /\ pc = "bool_scan"
    /\ i >= len
    /\ selection_vector_if' = truncate(selection_vector_if, len)
    /\ pc' = "consequent"
    /\ UNCHANGED <<node, compileVars, ctxVars, alternative, selection_vector_else, len, i, iters,
                   varVars, calls, scalar>>

\* the alternative, when there is one, invoked ahead of the consequent
ConsequentResolveBatchAfterElse ==
    /\ node = "IfStatement" /\ pc = "consequent"
    /\ LET first == IF alternative = <<>> THEN resolved_values
                    ELSE ChildResolveBatch(alternative[1], resolved_values,
                                           selection_vector_else)
           told == IF alternative = <<>> THEN calls
                   ELSE Append(calls, [child |-> alternative[1],
                                       sel |-> selection_vector_else])
       IN  /\ resolved_values' =
                  [r \in Rows |-> IF r \in Elems(selection_vector_if)
                                  THEN ChildResolve("consequent", states[r])
                                  ELSE first[r]]
           /\ calls' = Append(told, [child |-> "consequent", sel |-> selection_vector_if])
    /\ pc' = IF alternative = <<>> THEN "alternative" ELSE "done"
    /\ UNCHANGED <<node, compileVars, states, selection_vector, entry_values, ifVars, varVars, scalar>>

\* the consequent given the input selection instead of selection_vector_if
ConsequentResolveBatchOnInput ==
    /\ node = "IfStatement" /\ pc = "consequent"
    /\ resolved_values' =
           ChildResolveBatch("consequent", resolved_values, selection_vector)
    /\ calls' = Append(calls, [child |-> "consequent", sel |-> selection_vector])
    /\ pc' = "alternative"
    /\ UNCHANGED <<node, compileVars, states, selection_vector, entry_values, ifVars, varVars, scalar>>

\* lines 98-99: self.consequent.resolve_batch(ctx, &self.selection_vector_if)
ConsequentResolveBatch ==
    /\ node = "IfStatement" /\ pc = "consequent"
    /\ resolved_values' =
           ChildResolveBatch("consequent", resolved_values, selection_vector_if)
    /\ calls' = Append(calls, [child |-> "consequent", sel |-> selection_vector_if])
    /\ pc' = "alternative"
    /\ UNCHANGED <<node, compileVars, states, selection_vector, entry_values, ifVars, varVars, scalar>>

\* lines 100-101: alternative.resolve_batch(ctx, &self.selection_vector_else)
AlternativeResolveBatch ==
    /\ node = "IfStatement" /\ pc = "alternative"
    /\ alternative # <<>>
    /\ resolved_values' =
           ChildResolveBatch(alternative[1], resolved_values, selection_vector_else)
    /\ calls' = Append(calls, [child |-> alternative[1], sel |-> selection_vector_else])
    /\ pc' = "done"
    /\ UNCHANGED <<node, compileVars, states, selection_vector, entry_values, ifVars, varVars, scalar>>

\* null written over every row that is not in selection_vector_if
WriteNullOverOthers ==
    /\ node = "IfStatement" /\ pc = "alternative"
    /\ alternative = <<>>
    /\ resolved_values' =
           [r \in Rows |-> IF r \notin Elems(selection_vector_if)
                           THEN Ok(Null) ELSE resolved_values[r]]
    /\ pc' = "done"
    /\ UNCHANGED <<node, compileVars, states, selection_vector, entry_values, ifVars, varVars,
                   calls, scalar>>

\* null written over the rows of selection_vector_if
WriteNullOverIf ==
    /\ node = "IfStatement" /\ pc = "alternative"
    /\ alternative = <<>>
    /\ resolved_values' =
           [r \in Rows |-> IF r \in Elems(selection_vector_if)
                           THEN Ok(Null) ELSE resolved_values[r]]
    /\ pc' = "done"
    /\ UNCHANGED <<node, compileVars, states, selection_vector, entry_values, ifVars, varVars,
                   calls, scalar>>

\* lines 102-106: for index in &self.selection_vector_else { .. = Ok(Value::Null) }
WriteNull ==
    /\ node = "IfStatement" /\ pc = "alternative"
    /\ alternative = <<>>
    /\ resolved_values' =
           [r \in Rows |-> IF r \in Elems(selection_vector_else)
                           THEN Ok(Null) ELSE resolved_values[r]]
    /\ pc' = "done"
    /\ UNCHANGED <<node, compileVars, states, selection_vector, entry_values, ifVars, varVars,
                   calls, scalar>>

\* ------------------------------------------------- IfStatement::resolve
\* a false predicate always giving null, the alternative ignored
IfResolveWithoutElse(state) ==
    LET p == ChildResolve("predicate", state) IN
    IF is_err(p)
    THEN [result |-> p, called |-> <<"predicate">>, panic |-> FALSE]
    ELSE IF p.v = "true"
    THEN [result |-> ChildResolve("consequent", state),
          called |-> <<"predicate", "consequent">>, panic |-> FALSE]
    ELSE [result |-> Ok(Null), called |-> <<"predicate">>, panic |-> FALSE]

\* both blocks resolved before the predicate's value picks one
IfResolveEager(state) ==
    LET p == ChildResolve("predicate", state)
        c == ChildResolve("consequent", state)
        a == IF alternative = <<>> THEN Ok(Null) ELSE ChildResolve(alternative[1], state)
        blocks == IF alternative = <<>> THEN <<"consequent">>
                  ELSE <<"consequent", alternative[1]>>
    IN  IF is_err(p)
        THEN [result |-> p, called |-> <<"predicate">>, panic |-> FALSE]
        ELSE [result |-> IF p.v = "true" THEN c ELSE a,
              called |-> <<"predicate">> \o blocks, panic |-> FALSE]

\* lines 35-49, on the Context holding one row's state
IfResolve(state) ==
    LET p == ChildResolve("predicate", state) IN
    IF is_err(p)
    THEN [result |-> p, called |-> <<"predicate">>, panic |-> FALSE]
    ELSE IF ~is_boolean(p)
    THEN [result |-> p, called |-> <<"predicate">>, panic |-> TRUE]
    ELSE IF p.v = "true"
    THEN [result |-> ChildResolve("consequent", state),
          called |-> <<"predicate", "consequent">>, panic |-> FALSE]
    ELSE IF alternative = <<>>
    THEN [result |-> Ok(Null), called |-> <<"predicate">>, panic |-> FALSE]
    ELSE [result |-> ChildResolve(alternative[1], state),
          called |-> <<"predicate", alternative[1]>>, panic |-> FALSE]

Resolve(row) ==
    /\ node = "IfStatement" /\ pc = "done"
    /\ scalar = <<>>
    /\ scalar' = <<[row |-> row] @@ IfResolve(states[row])>>
    /\ UNCHANGED <<node, compileVars, pc, ctxVars, ifVars, varVars, calls>>

\* ------------------------------------------------- identifiers, environments
\* An Ident is its sequence of characters.
Foo == <<"f", "o", "o">>

Food == <<"f", "o", "o", "d">>

Idents == {Foo, Food}

None == <<>>

Some(x) == <<x>>

\* LocalEnv::variable: the details recorded for the identifier, if any
LocalVariable(env, ident) ==
    IF ident \in DOMAIN env THEN Some(env[ident]) ELSE None

\* LocalEnv::variable_idents, collected: the identifiers of the environment
\* in the order the environment yields them
VariableIdents(env) ==
    {seq \in [1..Cardinality(DOMAIN env) -> DOMAIN env] : Elems(seq) = DOMAIN env}

\* Runtime state lookup: the value bound to the identifier in a row, if any
StateVariable(state, ident) ==
    IF ident \in DOMAIN state.variables THEN Some(state.variables[ident]) ELSE None

unwrap_or(opt, default) == IF opt = None THEN default ELSE opt[1]

\* ------------------------------------------------- Variable::new
\* a node built without the environment's recorded constant
VariableNewWithoutValue ==
    /\ node = "Variable" /\ pc = "new"
    /\ LET found == LocalVariable(local, args.ident) IN
         IF found # None
         THEN /\ variable' = Some([ident |-> args.ident, value |-> None])
              /\ pc' = "ready"
              /\ UNCHANGED error
         ELSE /\ \E idents \in VariableIdents(local) :
                    error' = Some([variant |-> [kind |-> "Undefined", idents |-> idents],
                                   ident |-> args.ident, span |-> args.span])
              /\ pc' = "failed"
              /\ UNCHANGED variable
    /\ UNCHANGED <<node, compileVars, ctxVars, ifVars, local, args, calls, scalar>>

\* lines 20-34
VariableNew ==
    /\ node = "Variable" /\ pc = "new"
    /\ LET found == LocalVariable(local, args.ident) IN
         IF found # None
         THEN /\ variable' = Some([ident |-> args.ident, value |-> found[1].value])
              /\ pc' = "ready"
              /\ UNCHANGED error
         ELSE /\ \E idents \in VariableIdents(local) :
                    error' = Some([variant |-> [kind |-> "Undefined", idents |-> idents],
                                   ident |-> args.ident, span |-> args.span])
              /\ pc' = "failed"
              /\ UNCHANGED variable
    /\ UNCHANGED <<node, compileVars, ctxVars, ifVars, local, args, calls, scalar>>

\* ------------------------------------------------- Variable::resolve
\* the captured constant returned when the node holds one
VariableResolveValueCaptured(self, state) ==
    IF self.value # None THEN Ok(self.value[1])
    ELSE Ok(unwrap_or(StateVariable(state, self.ident), Null))

\* lines 46-52
VariableResolveValue(self, state) ==
    Ok(unwrap_or(StateVariable(state, self.ident), Null))

VariableResolve(row) ==
    /\ node = "Variable" /\ pc = "done"
    /\ scalar = <<>>
    /\ scalar' = <<[row |-> row, result |-> VariableResolveValue(variable[1], states[row]),
                    called |-> <<>>, panic |-> FALSE]>>
    /\ UNCHANGED <<node, compileVars, pc, ctxVars, ifVars, varVars, calls>>

\* ------------------------------------------------- Variable::resolve_batch
\* every selected row resolved against the state of the first selected row
VariableBatchValuesFirstRow(self, sts, values, sel) ==
    [r \in DOMAIN values |->
        IF r \in Elems(sel)
        THEN Ok(unwrap_or(StateVariable(sts[sel[1]], self.ident), Null))
        ELSE values[r]]

\* an unbound identifier recorded as a fault
VariableBatchValuesStrict(self, sts, values, sel) ==
    [r \in DOMAIN values |->
        IF r \in Elems(sel)
        THEN IF StateVariable(sts[r], self.ident) = None
             THEN Err("undefined_variable")
             ELSE Ok(StateVariable(sts[r], self.ident)[1])
        ELSE values[r]]

\* lines 54-62, the whole loop
VariableBatchValues(self, sts, values, sel) ==
    [r \in DOMAIN values |->
        IF r \in Elems(sel)
        THEN Ok(unwrap_or(StateVariable(sts[r], self.ident), Null))
        ELSE values[r]]

\* ------------------------------------------------- Error::labels
\* levenstein::distance: the edit distance of two character sequences
RECURSIVE distance(_, _)
distance(a, b) ==
    IF Len(a) = 0 THEN Len(b)
    ELSE IF Len(b) = 0 THEN Len(a)
    ELSE LET del == distance(Tail(a), b) + 1
             ins == distance(a, Tail(b)) + 1
             sub == distance(Tail(a), Tail(b)) + (IF Head(a) = Head(b) THEN 0 ELSE 1)
             low == IF del < ins THEN del ELSE ins
         IN  IF sub < low THEN sub ELSE low

\* the index of the last largest score
max_by_key(scores) ==
    IF Len(scores) = 0 THEN None
    ELSE Some(CHOOSE k \in 1..Len(scores) :
                 /\ \A j \in 1..Len(scores) : scores[j] <= scores[k]
                 /\ \A j \in (k + 1)..Len(scores) : scores[j] < scores[k])

\* lines 135-142: enumerate().min_by_key(score), the first smallest score;
\* the index is a position of the sequence, counted from 1
min_by_key(scores) ==
    IF Len(scores) = 0 THEN None
    ELSE Some(CHOOSE k \in 1..Len(scores) :
                 /\ \A j \in 1..Len(scores) : scores[k] <= scores[j]
                 /\ \A j \in 1..(k - 1) : scores[k] < scores[j])

\* line 130
Builtin == << <<"n", "u", "l", "l">>, <<"t", "r", "u", "e">>,
              <<"f", "a", "l", "s", "e">> >>

\* lines 122-156
LabelsOf(err) ==
    LET vec == <<[kind |-> "primary", message |-> "undefined variable",
                  span |-> err.span]>>
        idents == err.variant.idents \o Builtin
        scores == [k \in 1..Len(idents) |-> distance(err.ident, idents[k])]
        best == min_by_key(scores)
    IN  IF best # None
        THEN Append(vec, [kind |-> "context",
                          message |-> <<"did you mean", idents[best[1]]>>,
                          span |-> err.span])
        ELSE vec

Labels ==
    /\ node = "Variable" /\ pc = "failed"
    /\ labels' = Some(LabelsOf(error[1]))
    /\ pc' = "labelled"
    /\ UNCHANGED <<node, ctxVars, ifVars, varVars, block_types, type_def, calls, scalar>>

\* ------------------------------------------------- TypeDef
\* A TypeDef is the set of kinds the value may have.
\* TypeDef::add_null
add_null(td) == td \cup {"null"}

\* TypeDef::merge_deep
merge_deep(td, other) == td \cup other

\* Block::type_def
BlockTypeDef(child) == block_types[child]

\* the consequent's type returned as is when there is no alternative
IfTypeDefValueWithoutNull ==
    LET td == BlockTypeDef("consequent") IN
    IF alternative = <<>> THEN td
    ELSE merge_deep(td, BlockTypeDef(alternative[1]))

\* ------------------------------------------------- IfStatement::type_def
\* lines 109-116
IfTypeDefValue ==
    LET td == BlockTypeDef("consequent") IN
    IF alternative = <<>> THEN add_null(td)
    ELSE merge_deep(td, BlockTypeDef(alternative[1]))

IfTypeDef ==
    /\ node = "IfStatement::type_def" /\ pc = "type_def"
    /\ type_def' = Some(IfTypeDefValue)
    /\ pc' = "typed"
    /\ UNCHANGED <<node, ctxVars, ifVars, varVars, block_types, labels, calls, scalar>>

\* ---------------------------------------------------------------- Init
RowSet(n) == 0..(n - 1)

Selections(rows) ==
    {s \in UNION {[1..k -> rows] : k \in 0..Cardinality(rows)} :
        \A a, b \in DOMAIN s : a # b => s[a] # s[b]}

\* scratch buffers as a fresh node has them, or as an earlier call left them
StaleBuffer == [k \in 1..(MaxRows + 1) |-> 0]

\* selection_vector_if and selection_vector_else at the start of a call:
\* empty as IfStatement::new makes them, long and stale, or short and stale
ScratchStarts ==
    {<<<<>>, <<>>>>, <<StaleBuffer, StaleBuffer>>, <<<<1>>, <<1, 0>>>>}

PredicateOutcomes == {Ok(Boolean(TRUE)), Ok(Boolean(FALSE)), Err("predicate_fault")}

ConsequentOutcomes == {Ok("1"), Err("consequent_fault")}

AlternativeOutcomes == {Ok("2"), Err("alternative_fault")}

NoVariables == <<>>

IfRowState(p, c, a) ==
    [predicate |-> p, consequent |-> c, alternative |-> a, variables |-> NoVariables]

\* every combination of what the three children resolve to on a row
AllIfRowStates ==
    {IfRowState(p, c, a) : p \in PredicateOutcomes, c \in ConsequentOutcomes,
                           a \in AlternativeOutcomes}

\* the combinations in which only the block the predicate selects may fault
IfRowStates ==
    {st \in AllIfRowStates :
        /\ st.predicate # Ok(Boolean(TRUE)) => st.consequent = Ok("1")
        /\ st.predicate # Ok(Boolean(FALSE)) => st.alternative = Ok("2")}

IdleIfRowState == IfRowState(Ok(Boolean(TRUE)), Ok("1"), Ok("2"))

\* rows holding a fault of an earlier node on entry: none, all, the rows
\* of the selection, or the rows left out of it
PriorFaultSets(rows, sel) == {{}, rows, Elems(sel), rows \ Elems(sel)}

EntryValues(rows, sel) ==
    {[r \in rows |-> IF r \in f THEN Err("prior_fault") ELSE Ok("prior")] :
        f \in PriorFaultSets(rows, sel)}

NoVariableCall ==
    /\ local = <<>>
    /\ args = <<>>
    /\ variable = <<>>
    /\ error = <<>>

NoCompileCall ==
    /\ block_types = <<>>
    /\ type_def = <<>>
    /\ labels = <<>>

InitIf ==
    /\ node = "IfStatement" /\ pc = "predicate"
    /\ alternative \in {<<>>, <<"alternative">>}
    /\ \E n \in 1..MaxRows :
         /\ selection_vector \in Selections(RowSet(n))
         /\ resolved_values \in EntryValues(RowSet(n), selection_vector)
         /\ states \in
              {t \in [RowSet(n) -> IF n <= MaxFullRows THEN AllIfRowStates
                                                       ELSE IfRowStates] :
                  /\ \A r \in RowSet(n) \ Elems(selection_vector) :
                         t[r] = IdleIfRowState
                  /\ alternative = <<>> =>
                         \A r \in RowSet(n) : t[r].alternative = Ok("2")}
    /\ entry_values = resolved_values
    /\ \E start \in ScratchStarts :
         /\ selection_vector_if = start[1]
         /\ selection_vector_else = start[2]
    /\ len = 0 /\ i = 0 /\ iters = 0
    /\ calls = <<>>
    /\ scalar = <<>>
    /\ NoVariableCall
    /\ NoCompileCall

Details == [type_def : {"any"}, value : {None, Some("k"), Some("a")}]

LocalEnvs == UNION {[d -> Details] : d \in SUBSET Idents}

Span == [start |-> 3, end |-> 6]

Bindings ==
    {NoVariables, [d \in {Foo} |-> "a"], [d \in {Foo} |-> "b"], [d \in {Food} |-> "a"]}

VariableRowState(b) ==
    [predicate |-> Ok(Boolean(TRUE)), consequent |-> Ok("1"),
     alternative |-> Ok("2"), variables |-> b]

IdleVariableRowState == VariableRowState(NoVariables)

InitVariable ==
    /\ node = "Variable" /\ pc = "new"
    /\ local \in LocalEnvs
    /\ args \in [span : {Span}, ident : Idents]
    /\ variable = None
    /\ error = None
    /\ resolved_values = <<>> /\ entry_values = <<>> /\ states = <<>>
    /\ selection_vector = <<>>
    /\ alternative = <<>>
    /\ selection_vector_if = <<>> /\ selection_vector_else = <<>>
    /\ len = 0 /\ i = 0 /\ iters = 0
    /\ calls = <<>>
    /\ scalar = <<>>
    /\ NoCompileCall

Kinds == {"string", "integer", "null", "boolean"}

TypeDefs == (SUBSET Kinds) \ {{}}

NoBatch ==
    /\ resolved_values = <<>> /\ entry_values = <<>> /\ states = <<>>
    /\ selection_vector = <<>>
    /\ selection_vector_if = <<>> /\ selection_vector_else = <<>>
    /\ len = 0 /\ i = 0 /\ iters = 0
    /\ calls = <<>>
    /\ scalar = <<>>

InitTypeDef ==
    /\ node = "IfStatement::type_def" /\ pc = "type_def"
    /\ alternative \in {<<>>, <<"alternative">>}
    /\ block_types \in [predicate : {{"boolean"}}, consequent : TypeDefs,
                        alternative : IF alternative = <<>> THEN {{"null"}} ELSE TypeDefs]
    /\ type_def = <<>>
    /\ labels = <<>>
    /\ NoBatch
    /\ NoVariableCall

\* the batch context and selection that Variable::resolve_batch is called on
VariableResolveBatch ==
    /\ node = "Variable" /\ pc = "ready"
    /\ \E n \in 1..MaxRows :
         \E sel \in Selections(RowSet(n)) :
           \E values \in EntryValues(RowSet(n), sel) :
             \E sts \in {t \in [RowSet(n) -> {VariableRowState(b) : b \in Bindings}] :
                           \A r \in RowSet(n) \ Elems(sel) :
                               t[r] = IdleVariableRowState} :
               /\ selection_vector' = sel
               /\ states' = sts
               /\ entry_values' = values
               /\ resolved_values' = VariableBatchValues(variable[1], sts, values, sel)
    /\ pc' = "done"
    /\ UNCHANGED <<node, compileVars, ifVars, varVars, calls, scalar>>

Init == InitIf \/ InitVariable \/ InitTypeDef

Next ==
    \/ PredicateResolveBatch
    \/ CopySelection
    \/ FaultScanStep
    \/ FaultScanExit
    \/ BoolScanStep
    \/ BoolScanExit
    \/ ConsequentResolveBatch
    \/ AlternativeResolveBatch
    \/ WriteNull
    \/ \E row \in Rows : Resolve(row)
    \/ VariableNew
    \/ Labels
    \/ IfTypeDef
    \/ VariableResolveBatch
    \/ \E row \in Rows : VariableResolve(row)

Spec == Init /\ [][Next]_vars

\* ================================================================ properties
IfDone == node = "IfStatement" /\ pc = "done"

VariableDone == node = "Variable" /\ pc = "done"

Selected == Elems(selection_vector)

PredicateOn(r) == states[r].predicate

CallsOf(child) == {k \in 1..Len(calls) : calls[k].child = child}

HandedTo(child) == UNION {Elems(calls[k].sel) : k \in CallsOf(child)}

PredicateFaulted == {r \in Selected : is_err(PredicateOn(r))}

PredicateTrue == {r \in Selected : PredicateOn(r) = Ok(Boolean(TRUE))}

PredicateFalse == {r \in Selected : PredicateOn(r) = Ok(Boolean(FALSE))}

NoDuplicates(vec) == Cardinality(Elems(vec)) = Len(vec)

\* C1: once both scans of resolve_batch are over, the rows of the selection
\* fall in exactly one of three classes: selection_vector_if (handed to the
\* consequent), selection_vector_else (handed to the alternative, or written
\* null), or left holding the predicate's fault; the classes are pairwise
\* disjoint, each index occurs once, and their union is the selection.
C1_Partition ==
    (node = "IfStatement" /\ pc \in {"consequent", "alternative", "done"}) =>
        LET A == Elems(selection_vector_if)
            B == Elems(selection_vector_else)
            F == PredicateFaulted
        IN  /\ A \cap B = {} /\ A \cap F = {} /\ B \cap F = {}
            /\ A \cup B \cup F = Selected
            /\ NoDuplicates(selection_vector_if)
            /\ NoDuplicates(selection_vector_else)
            /\ pc = "done" =>
                 /\ HandedTo("consequent") = A
                 /\ alternative # <<>> => HandedTo("alternative") = B
                 /\ alternative = <<>> =>
                        /\ HandedTo("alternative") = {}
                        /\ \A r \in B : resolved_values[r] = Ok(Null)
                 /\ \A r \in F : resolved_values[r] = PredicateOn(r)

C1_Witness ==
    /\ IfDone
    /\ Len(selection_vector) = 3
    /\ Elems(selection_vector_if) # {}
    /\ Elems(selection_vector_else) # {}
    /\ PredicateFaulted # {}

\* C2: on a one-row batch with selection {0}, the result of scalar resolve on
\* the row equals the content of slot 0 after resolve_batch.
C2_ScalarBatchAgree ==
    (IfDone /\ scalar # <<>> /\ Rows = {0} /\ selection_vector = <<0>>) =>
        /\ ~scalar[1].panic
        /\ scalar[1].result = resolved_values[0]

C2_Witness ==
    /\ IfDone /\ scalar # <<>> /\ Rows = {0} /\ selection_vector = <<0>>
    /\ PredicateOn(0) = Ok(Boolean(FALSE))
    /\ alternative # <<>>
    /\ states[0].alternative = Err("alternative_fault")
    /\ states[0].consequent = Err("consequent_fault")
    /\ scalar[1].result = Err("alternative_fault")

\* what a row receives from the conditional, as a function of the row alone
RowOutcome(state) ==
    IF is_err(state.predicate) THEN state.predicate
    ELSE IF state.predicate = Ok(Boolean(TRUE)) THEN state.consequent
    ELSE IF alternative = <<>> THEN Ok(Null)
    ELSE state.alternative

\* C3: a row whose predicate faulted is handed to neither block and its slot
\* still holds that fault at the end; every other row of the selection ends
\* with the content its own state determines, whichever other rows (faulting
\* or not) the selection holds.
C3_FaultIsolation ==
    IfDone =>
        /\ \A r \in PredicateFaulted :
              /\ r \notin HandedTo("consequent")
              /\ r \notin HandedTo("alternative")
              /\ resolved_values[r] = PredicateOn(r)
        /\ \A r \in Selected \ PredicateFaulted :
              resolved_values[r] = RowOutcome(states[r])

C3_Witness ==
    /\ IfDone
    /\ PredicateFaulted # {}
    /\ PredicateTrue # {}
    /\ PredicateFalse # {}
    /\ alternative # <<>>
    /\ selection_vector[1] \in PredicateFaulted

\* C4: with an alternative present, a row whose predicate is true ends with
\* the consequent's result for that row and a row whose predicate is false
\* with the alternative's, in resolve_batch for every row of the selection
\* and in scalar resolve.
C4_BranchSelection ==
    (IfDone /\ alternative # <<>>) =>
        /\ \A r \in PredicateTrue : resolved_values[r] = states[r].consequent
        /\ \A r \in PredicateFalse : resolved_values[r] = states[r].alternative
        /\ scalar # <<>> =>
             LET st == states[scalar[1].row] IN
               /\ st.predicate = Ok(Boolean(TRUE)) => scalar[1].result = st.consequent
               /\ st.predicate = Ok(Boolean(FALSE)) => scalar[1].result = st.alternative

\* predicates [true, false, true], consequent 1, alternative 2: slots [1, 2, 1]
C4_Witness ==
    /\ IfDone /\ alternative # <<>>
    /\ Rows = {0, 1, 2} /\ Selected = Rows
    /\ PredicateOn(0) = Ok(Boolean(TRUE))
    /\ PredicateOn(1) = Ok(Boolean(FALSE))
    /\ PredicateOn(2) = Ok(Boolean(TRUE))
    /\ resolved_values = (0 :> Ok("1") @@ 1 :> Ok("2") @@ 2 :> Ok("1"))
    /\ selection_vector = <<2, 0, 1>>

\* C5: without an alternative, a row whose predicate is false receives null,
\* in resolve_batch and in scalar resolve, and no child other than the
\* predicate is resolved for it.
C5_NullWithoutAlternative ==
    (IfDone /\ alternative = <<>>) =>
        /\ \A r \in PredicateFalse :
              /\ resolved_values[r] = Ok(Null)
              /\ r \notin HandedTo("consequent")
        /\ CallsOf("alternative") = {}
        /\ (scalar # <<>> /\ states[scalar[1].row].predicate = Ok(Boolean(FALSE))) =>
              /\ scalar[1].result = Ok(Null)
              /\ scalar[1].called = <<"predicate">>

C5_Witness ==
    /\ IfDone /\ alternative = <<>>
    /\ PredicateFalse # {}
    /\ PredicateTrue # {}
    /\ scalar # <<>>
    /\ scalar[1].row \in PredicateFalse
    /\ scalar[1].result = Ok(Null)

\* what the predicate's batch resolution leaves in the slot of a row
AfterPredicate(r) == IF r \in Selected THEN PredicateOn(r) ELSE entry_values[r]

EntryFaulted == {r \in Rows : is_err(entry_values[r])}

\* C6 as stated: a row of the selection whose slot holds a fault on entry is
\* never handed to the predicate's batch resolution.
C6_EntryFaultsKeptFromPredicate ==
    node = "IfStatement" => HandedTo("predicate") \cap EntryFaulted = {}

\* C6, amended: resolve_batch does no filtering of its own before the
\* predicate: the predicate is invoked once, on the input selection as given,
\* so a row that entered with a fault is handed to it exactly when the caller
\* left it in the selection; a row whose slot holds a fault once the
\* predicate has run is handed to neither block.
C6_PredicateGetsInputSelection ==
    (node = "IfStatement" /\ pc # "predicate") =>
        /\ CallsOf("predicate") = {1}
        /\ calls[1].sel = selection_vector
        /\ HandedTo("predicate") \cap EntryFaulted = Selected \cap EntryFaulted
        /\ \A r \in Rows :
              is_err(AfterPredicate(r)) =>
                  r \notin HandedTo("consequent") \cup HandedTo("alternative")

C6_Witness ==
    /\ IfDone
    /\ Selected \cap EntryFaulted # {}
    /\ EntryFaulted \ Selected # {}
    /\ PredicateFaulted # {}
    /\ HandedTo("consequent") # {}

\* C7: scalar resolve returns the predicate's fault at once, resolving no
\* block; when the predicate succeeds it resolves the consequent and not the
\* alternative if true, the alternative and not the consequent if false and
\* an alternative is present, and no block if false without an alternative.
C7_ScalarFaultPropagation ==
    (node = "IfStatement" /\ scalar # <<>>) =>
        LET st == states[scalar[1].row]
            sc == scalar[1]
        IN  /\ ~sc.panic
            /\ is_err(st.predicate) =>
                  sc.result = st.predicate /\ sc.called = <<"predicate">>
            /\ st.predicate = Ok(Boolean(TRUE)) =>
                  sc.called = <<"predicate", "consequent">>
            /\ (st.predicate = Ok(Boolean(FALSE)) /\ alternative # <<>>) =>
                  sc.called = <<"predicate", "alternative">>
            /\ (st.predicate = Ok(Boolean(FALSE)) /\ alternative = <<>>) =>
                  sc.called = <<"predicate">>

C7_Witness ==
    /\ node = "IfStatement" /\ scalar # <<>>
    /\ alternative # <<>>
    /\ states[scalar[1].row].predicate = Err("predicate_fault")
    /\ states[scalar[1].row].consequent = Err("consequent_fault")
    /\ states[scalar[1].row].alternative = Err("alternative_fault")
    /\ scalar[1].result = Err("predicate_fault")

\* the value the node's identifier is bound to in the live state of a row
LiveValue(r) ==
    IF variable[1].ident \in DOMAIN states[r].variables
    THEN states[r].variables[variable[1].ident]
    ELSE Null

\* C8: Variable::resolve_batch writes Ok(V) into the slot of every selected
\* row whose live state binds the identifier to V and Ok(null) where it is
\* unbound; Variable::resolve returns the same for its row; never a fault.
C8_VariableResolution ==
    VariableDone =>
        /\ \A r \in Selected : resolved_values[r] = Ok(LiveValue(r))
        /\ scalar # <<>> =>
              /\ scalar[1].result = Ok(LiveValue(scalar[1].row))
              /\ ~is_err(scalar[1].result)

C8_Witness ==
    /\ VariableDone /\ scalar # <<>>
    /\ \E r \in Selected : LiveValue(r) = "b" /\ scalar[1].row = r
    /\ \E r \in Selected : variable[1].ident \notin DOMAIN states[r].variables
    /\ \E r \in Selected : LiveValue(r) = "a"

\* C9 as stated: for every row, the slot holds a fault after
\* Variable::resolve_batch if and only if it held one before.
C9_FaultsUnchanged ==
    VariableDone =>
        \A r \in Rows : is_err(resolved_values[r]) <=> is_err(entry_values[r])

\* C9, amended: Variable::resolve_batch produces no fault: a slot holds a
\* fault after the call if and only if it held one before and the row is not
\* in the selection (a selected row that entered with a fault is overwritten
\* with a value).
C9_NoFaultProduced ==
    VariableDone =>
        \A r \in Rows :
            is_err(resolved_values[r]) <=> (is_err(entry_values[r]) /\ r \notin Selected)

C9_Witness ==
    /\ VariableDone
    /\ Selected \cap EntryFaulted # {}
    /\ EntryFaulted \ Selected # {}
    /\ \E r \in Selected : variable[1].ident \notin DOMAIN states[r].variables

\* C10: Variable::new returns a node if and only if the identifier is in the
\* local environment; when absent it returns the undefined-variable error
\* with the identifier, the span and every identifier of the environment,
\* and no node; when present the node holds the identifier and the constant
\* value the environment records for it, if any.
C10_Construction ==
    (node = "Variable" /\ pc # "new") =>
        /\ variable # None <=> args.ident \in DOMAIN local
        /\ variable # None <=> error = None
        /\ variable # None =>
              /\ variable[1].ident = args.ident
              /\ variable[1].value = local[args.ident].value
        /\ error # None =>
              /\ pc \in {"failed", "labelled"}
              /\ error[1].variant.kind = "Undefined"
              /\ error[1].ident = args.ident
              /\ error[1].span = args.span
              /\ Elems(error[1].variant.idents) = DOMAIN local
              /\ NoDuplicates(error[1].variant.idents)

C10_Witness ==
    /\ node = "Variable" /\ pc = "failed"
    /\ args.ident = Foo
    /\ error # None
    /\ error[1].variant.idents = <<Food>>

\* C11: resolve and resolve_batch read the live state of the row and never
\* the constant captured at construction: for a node holding a captured
\* value V1, every selected slot and the scalar result are Ok of the live
\* binding V2 of the row (null when unbound), whatever V1 is.
C11_LiveStateNotSnapshot ==
    (VariableDone /\ variable[1].value # None) =>
        /\ \A r \in Selected : resolved_values[r] = Ok(LiveValue(r))
        /\ scalar # <<>> => scalar[1].result = Ok(LiveValue(scalar[1].row))

C11_Witness ==
    /\ VariableDone /\ scalar # <<>>
    /\ variable[1].value = Some("a")
    /\ scalar[1].row \in Selected
    /\ scalar[1].result = Ok("b")
    /\ \E r \in Selected : resolved_values[r] = Ok(Null)
    /\ \E r \in Selected : resolved_values[r] = Ok("a")

\* C12: the static type of a conditional is the union of the consequent's
\* and the alternative's types when there is an alternative, and the
\* consequent's type with null added when there is none; the predicate's
\* type contributes nothing.
C12_StaticType ==
    (node = "IfStatement::type_def" /\ pc = "typed") =>
        /\ alternative # <<>> =>
              type_def = Some(block_types.consequent \cup block_types.alternative)
        /\ alternative = <<>> =>
              type_def = Some(block_types.consequent \cup {"null"})

\* string and integer give {string, integer}
C12_Witness ==
    /\ node = "IfStatement::type_def" /\ pc = "typed"
    /\ alternative # <<>>
    /\ block_types.consequent = {"string"}
    /\ block_types.alternative = {"integer"}
    /\ type_def = Some({"string", "integer"})

\* the names a suggestion is drawn from: the environment's identifiers
\* followed by null, true, false
Candidates == Elems(error[1].variant.idents) \cup Elems(Builtin)

\* C13: labels() returns exactly a primary label and one "did you mean"
\* context label, both at the error's span, and the suggested name is a
\* candidate whose edit distance to the offending identifier is smallest
\* among the environment's identifiers and null, true, false.
C13_Suggestion ==
    (node = "Variable" /\ pc = "labelled") =>
        /\ labels # None
        /\ Len(labels[1]) = 2
        /\ labels[1][1].kind = "primary" /\ labels[1][1].span = args.span
        /\ labels[1][2].kind = "context" /\ labels[1][2].span = args.span
        /\ labels[1][2].message[1] = "did you mean"
        /\ LET guessed == labels[1][2].message[2] IN
             /\ guessed \in Candidates
             /\ \A c \in Candidates :
                    distance(args.ident, guessed) <= distance(args.ident, c)
             /\ DOMAIN local = {} => guessed \in Elems(Builtin)

\* foo with food visible suggests food
C13_Witness ==
    /\ node = "Variable" /\ pc = "labelled"
    /\ args.ident = Foo
    /\ DOMAIN local = {Food}
    /\ labels[1][2].message = <<"did you mean", Food>>

\* C14: with an empty selection no step of IfStatement::resolve_batch changes
\* a resolution slot or a row's state, and the predicate and the blocks are
\* invoked with empty selections only.
C14_EmptySelectionNoOp ==
    [][(node = "IfStatement" /\ selection_vector = <<>>) =>
          /\ resolved_values' = resolved_values
          /\ states' = states
          /\ \A k \in 1..Len(calls') : calls'[k].sel = <<>>]_vars

C14_Witness ==
    /\ IfDone
    /\ selection_vector = <<>>
    /\ alternative # <<>>
    /\ Len(calls) = 3
    /\ Cardinality(Rows) = 3
    /\ EntryFaulted = Rows
    /\ resolved_values = entry_values

\* what the call leaves in the slots, as a function of the context and the
\* selection alone
ExpectedValues ==
    [r \in Rows |-> IF r \in Selected THEN RowOutcome(states[r]) ELSE entry_values[r]]

\* C15: what selection_vector_if and selection_vector_else held before the
\* call has no effect: once copied, selection_vector_if holds the input
\* selection; after the scans the two buffers hold exactly the true rows and
\* the false rows of the selection; the index sets handed to the blocks and
\* the final slots are those the context and the selection determine, so two
\* calls that differ only in the starting buffers end alike.
C15_ScratchIrrelevant ==
    node = "IfStatement" =>
        /\ pc = "fault_scan" =>
              /\ Len(selection_vector_if) = Len(selection_vector)
              /\ Elems(selection_vector_if) = Selected
        /\ pc \in {"consequent", "alternative", "done"} =>
              /\ Elems(selection_vector_if) = PredicateTrue
              /\ Elems(selection_vector_else) = PredicateFalse
              /\ Len(selection_vector_if) = Cardinality(PredicateTrue)
              /\ Len(selection_vector_else) = Cardinality(PredicateFalse)
        /\ pc = "done" =>
              /\ HandedTo("consequent") = PredicateTrue
              /\ HandedTo("alternative") =
                     IF alternative = <<>> THEN {} ELSE PredicateFalse
              /\ resolved_values = ExpectedValues

\* a call that started with stale buffers: the copy has replaced the longer
\* stale selection_vector_if, selection_vector_else still holds stale rows
C15_Witness ==
    /\ node = "IfStatement" /\ pc = "fault_scan"
    /\ selection_vector_else = StaleBuffer
    /\ selection_vector_if = selection_vector
    /\ Len(selection_vector) = 2
    /\ 0 \notin Selected
    /\ PredicateFalse # {}

\* C16: with children that write only the slots of the rows they are given,
\* IfStatement::resolve_batch and Variable::resolve_batch leave the slot of
\* every row outside the input selection as it was on entry, at every step,
\* and every selection handed to a child holds rows of the input selection
\* only.
C16_OutsideSelectionUntouched ==
    node \in {"IfStatement", "Variable"} =>
        /\ \A r \in Rows \ Selected : resolved_values[r] = entry_values[r]
        /\ \A k \in 1..Len(calls) : Elems(calls[k].sel) \subseteq Selected

C16_Witness ==
    /\ IfDone
    /\ alternative = <<>>
    /\ PredicateTrue # {} /\ PredicateFalse # {}
    /\ Rows \ Selected # {}
    /\ \A r \in Rows \ Selected : resolved_values[r] = Err("prior_fault")
    /\ selection_vector_if # <<>>

InScan == node = "IfStatement" /\ pc \in {"fault_scan", "bool_scan"}

\* the length of the window a scan starts with
StartWindow ==
    IF pc = "fault_scan" THEN Len(selection_vector)
    ELSE Len(selection_vector) - Cardinality(PredicateFaulted)

\* C17: in both scans of resolve_batch 0 <= i <= len <= |S| holds and len
\* never exceeds the buffer, so every read selection_vector_if[i] and
\* resolved_values[index] is in bounds; every iteration either advances i by
\* one or shrinks len by one, never both; the iterations done plus the rows
\* left in the window always equal the scan's starting window, so each scan
\* stops, after exactly as many iterations as its starting window is long.
C17_ScansTerminate ==
    /\ [](InScan =>
            /\ 0 <= i /\ i <= len /\ len <= Len(selection_vector_if)
            /\ Len(selection_vector_if) <= Len(selection_vector)
            /\ Elems(selection_vector_if) \subseteq Rows
            /\ iters + (len - i) = StartWindow)
    /\ [][InScan =>
            /\ pc' = pc =>
                  /\ i < len
                  /\ iters' = iters + 1
                  /\ \/ i' = i + 1 /\ len' = len
                     \/ i' = i /\ len' = len - 1
            /\ pc' # pc =>
                  /\ i = len
                  /\ iters = StartWindow
                  /\ pc' \in {"bool_scan", "consequent"}]_vars

C17_Witness ==
    /\ node = "IfStatement" /\ pc = "consequent"
    /\ Len(selection_vector) = 3
    /\ Cardinality(PredicateFaulted) = 1
    /\ Cardinality(PredicateFalse) = 1
    /\ iters = 2
    /\ PredicateOn(selection_vector[1]) = Err("predicate_fault")

PredicateCall == [child |-> "predicate", sel |-> selection_vector]

\* C18: in one resolve_batch call the predicate is invoked first, once, on
\* the whole input selection; no block is invoked while the copy or either
\* scan is still running; the consequent is then invoked once, and only
\* after it the alternative, once if there is one and never otherwise.
C18_OrderOfSteps ==
    node = "IfStatement" =>
        /\ pc = "predicate" => calls = <<>>
        /\ pc \in {"copy", "fault_scan", "bool_scan", "consequent", "panicked"} =>
              calls = <<PredicateCall>>
        /\ pc = "alternative" =>
              /\ Len(calls) = 2
              /\ calls[1] = PredicateCall
              /\ calls[2].child = "consequent"
        /\ pc = "done" =>
              /\ Len(calls) = IF alternative = <<>> THEN 2 ELSE 3
              /\ calls[1] = PredicateCall
              /\ calls[2].child = "consequent"
              /\ alternative # <<>> => calls[3].child = "alternative"

C18_Witness ==
    /\ IfDone
    /\ alternative # <<>>
    /\ Len(calls) = 3
    /\ Len(calls[1].sel) = 3
    /\ calls[2].sel # <<>>
    /\ calls[3].sel # <<>>
    /\ PredicateFaulted # {}

====
